---- MODULE Spec2Model ----
(***************************************************************************)
(* A model of the jun front end: the recursive-descent HTML parser of      *)
(* src/src/html.rs, the selector-list parser of src/src/css.rs, the node   *)
(* constructors of src/src/dom.rs and the byte-offset cursor both parsers  *)
(* are built on.                                                           *)
(*                                                                         *)
(* A string is a sequence of characters; a character is a one-element name *)
(* ("<", "a", ...).  Positions are BYTE offsets, as in the Rust source:    *)
(* a character occupies Width(c) bytes of the UTF-8 encoded input.         *)
(***************************************************************************)
EXTENDS Integers, Sequences, FiniteSets, TLC

VARIABLES
    mode,      \* which parser runs: "html" (html::parse) or "css" (parse_selectors)
    input,     \* Parser.input
    pos,       \* Parser.pos, a byte offset
    stack,     \* the call stack: one frame per active parser function
    ret,       \* the value returned by the call that just finished, by its type
    status,    \* "running", "returned" or "panicked"
    err,       \* why the parse panicked ("" while it has not)
    result,    \* None until the entry point returns, then Some(its value)
    op         \* the cursor operation the last step performed

vars == <<mode, input, pos, stack, ret, status, err, result, op>>

----------------------------------------------------------------------------
(* Bounds of the model.                                                    *)

MaxLen == 4       \* free-form inputs: every string of at most MaxLen characters
MaxVal == 2       \* templated inputs: length of attribute values and text runs
MaxTop == 2       \* templated inputs: number of top-level fragments
MaxSel == 4       \* selector lists: number of selectors

----------------------------------------------------------------------------
(* Characters.                                                             *)

LT    == "<"
GT    == ">"
SLASH == "/"
EQS   == "="
DQ    == "\""
SQ    == "'"
SP    == " "
\* U+00E9, two bytes in UTF-8, not whitespace, not ASCII alphanumeric
EACUTE == "U00E9"
\* U+3000 (ideographic space), three bytes in UTF-8, char::is_whitespace
IDSP  == "U3000"

\* the number of bytes char_indices() steps over for character c
Width(c) == IF c = EACUTE THEN 2 ELSE IF c = IDSP THEN 3 ELSE 1

is_whitespace(c) == c \in {SP, IDSP}

\* the character class of parse_tag_name: 'a'..='z' | 'A'..='Z' | '0'..='9'
is_tag_name_char(c) == c \in {"a", "b", "d", "n", "m", "x", "A", "1"}

\* css.rs leaves valid_identifier_char as todo!(); the design fixes ASCII
\* letters, digits and the hyphen
valid_identifier_char(c) == c \in {"a", "b", "d", "n", "m", "x", "A", "1", "-"}

----------------------------------------------------------------------------
(* The cursor.                                                             *)

RECURSIVE ByteLen(_)
\* String::len(): the length of the input in bytes
ByteLen(s) == IF s = <<>> THEN 0 ELSE Width(Head(s)) + ByteLen(Tail(s))

\* the byte offset at which the i-th character starts (i = Len(s)+1: the end)
CharStart(s, i) == ByteLen(SubSeq(s, 1, i - 1))

\* str::is_char_boundary: the slice input[p..] exists only at such offsets
IsCharBoundary(s, p) == \E i \in 1..(Len(s) + 1) : CharStart(s, i) = p

\* the index of the first character of input[p..]
CharIndexAt(s, p) == CHOOSE i \in 1..(Len(s) + 1) : CharStart(s, i) = p

\* input[p..] as a sequence of characters
Slice(s, p) == SubSeq(s, CharIndexAt(s, p), Len(s))

\* eof(): all input is consumed
eof(s, p) == p >= ByteLen(s)

\* why next_char()/consume_char() panics at p, or "" when it does not:
\* slicing off a character boundary, or unwrap() on an exhausted iterator
CharPanic(s, p) ==
    IF ~IsCharBoundary(s, p) THEN "char_boundary"
    ELSE IF Slice(s, p) = <<>> THEN "unwrap_none"
    ELSE ""

\* next_char(): the first character of input[pos..]
next_char(s, p) == Head(Slice(s, p))

\* starts_with(lit): input[pos..] begins with lit
starts_with(s, p, lit) ==
    /\ Len(Slice(s, p)) >= Len(lit)
    /\ SubSeq(Slice(s, p), 1, Len(lit)) = lit

\* NextPos with unwrap_or((0, ' ')): no advance past the last character
NextPos_stuck_at_end(s, p) ==
    IF Len(Slice(s, p)) >= 2 THEN Width(Head(Slice(s, p))) ELSE 0

\* consume_char(): the offset of the second character of input[pos..] within
\* the slice, or 1 when there is no second character
NextPos(s, p) ==
    IF Len(Slice(s, p)) >= 2 THEN Width(Head(Slice(s, p))) ELSE 1

\* consume_char(): the new value of pos
consume_char(s, p) == p + NextPos(s, p)

\* the predicates handed to consume_until
Filter(f, c) ==
    CASE f = "whitespace" -> is_whitespace(c)
      [] f = "tag_name"   -> is_tag_name_char(c)
      [] f = "not_lt"     -> c # LT
      [] f = "not_dq"     -> c # DQ
      [] f = "not_sq"     -> c # SQ
      [] f = "identifier" -> valid_identifier_char(c)

----------------------------------------------------------------------------
(* The document model.                                                     *)

\* Node::text
text(data) ==
    [type |-> "Text", data |-> data, tag_name |-> <<>>,
     attributes |-> <<>>, children |-> <<>>]

\* Node::element
element(name, attrs, children) ==
    [type |-> "Element", data |-> <<>>, tag_name |-> name,
     attributes |-> attrs, children |-> children]

\* HashMap::insert: last write wins
insert(m, k, v) == [x \in (DOMAIN m) \cup {k} |-> IF x = k THEN v ELSE m[x]]

----------------------------------------------------------------------------
(* Values.                                                                 *)

\* an Option is a sequence of at most one element: None is <<>>, Some(x) is <<x>>
None == <<>>
Some(x) == <<x>>

\* the return register has one field per type of value the functions return:
\* String (str; value for the second String of parse_attr's pair), Node and
\* Vec<Node> (nodes), AttrMap (attrs), SimpleSelector and Vec<Selector> (sels)
NoRet == [str |-> <<>>, value |-> <<>>, nodes |-> <<>>, attrs |-> <<>>, sels |-> <<>>]
RetString(x) == [NoRet EXCEPT !.str = x]
RetPair(n, v) == [NoRet EXCEPT !.str = n, !.value = v]
RetNode(n) == [NoRet EXCEPT !.nodes = <<n>>]
RetNodes(ns) == [NoRet EXCEPT !.nodes = ns]
RetAttrs(m) == [NoRet EXCEPT !.attrs = m]
RetSelector(x) == [NoRet EXCEPT !.sels = <<x>>]
RetSelectors(xs) == [NoRet EXCEPT !.sels = xs]

----------------------------------------------------------------------------
(* The call stack.  A frame holds the locals of one active function: the   *)
(* string it accumulates (str), its attribute map, its node list, the      *)
(* predicate or quote it was given (arg), and for the two loops of the     *)
(* HTML parser the value pos had when the current iteration began (iter,   *)
(* a history field that no step reads).                                    *)

\* SimpleSelector { tag_name: None, id: None, class: Vec::new() }
NoSelector == [tag_name |-> None, id |-> None, class |-> <<>>]

Frame(fn, pc, arg) ==
    [fn |-> fn, pc |-> pc, arg |-> arg, str |-> <<>>, attrs |-> <<>>,
     nodes |-> <<>>, iter |-> 0, sel |-> NoSelector, sels |-> <<>>]

Top == stack[Len(stack)]
Pop == SubSeq(stack, 1, Len(stack) - 1)
At(fn, pc) ==
    /\ status = "running"
    /\ stack # <<>>
    /\ Top.fn = fn
    /\ Top.pc = pc

\* the running function continues as frame f
Goto(f) == Append(Pop, f)
\* the running function continues as frame f once the call to g returns
Call(f, g) == Append(Append(Pop, f), g)

Step(stk, p, r, o) ==
    /\ stack' = stk
    /\ pos' = p
    /\ ret' = r
    /\ op' = o
    /\ UNCHANGED <<mode, input, status, err, result>>

Panic(why, p, o) ==
    /\ status' = "panicked"
    /\ err' = why
    /\ pos' = p
    /\ op' = o
    /\ UNCHANGED <<mode, input, stack, ret, result>>

\* assert!(self.consume_char() == c), then continue with stack stk
Expect(c, stk) ==
    IF CharPanic(input, pos) # ""
    THEN Panic(CharPanic(input, pos), pos, "consume_char")
    ELSE IF next_char(input, pos) # c
         THEN Panic("assert_char", consume_char(input, pos), "consume_char")
         ELSE Step(stk, consume_char(input, pos), ret, "consume_char")

----------------------------------------------------------------------------
(* Cursor loops (html.rs and css.rs hold the same code).                   *)

\* consume_until: one evaluation of the loop condition, and the push or the
\* return that follows it
consume_until ==
    /\ At("consume_until", "loop")
    /\ IF eof(input, pos)
       THEN Step(Pop, pos, RetString(Top.str), "eof")
       ELSE IF CharPanic(input, pos) # ""
            THEN Panic(CharPanic(input, pos), pos, "next_char")
            ELSE IF Filter(Top.arg, next_char(input, pos))
                 THEN Step(Goto([Top EXCEPT !.str = Append(@, next_char(input, pos))]),
                           consume_char(input, pos), ret, "consume_char")
                 ELSE Step(Pop, pos, RetString(Top.str), "next_char")

\* consume_whitespace: consume_until(char::is_whitespace), result dropped
consume_whitespace ==
    /\ At("consume_whitespace", "call")
    /\ Step(Goto(Frame("consume_until", "loop", "whitespace")), pos, ret, "none")

----------------------------------------------------------------------------
(* The HTML parser.                                                        *)

HtmlTag == <<"h", "t", "m", "l">>

\* parse: build the Parser and call parse_nodes
parse_call ==
    /\ At("parse", "call")
    /\ Step(Call([Top EXCEPT !.pc = "nodes"], Frame("parse_nodes", "loop", "")),
            pos, ret, "none")

\* parse_return without the single-node case: the nodes are always wrapped
parse_return_always_wraps ==
    /\ At("parse", "nodes")
    /\ result' = Some(element(HtmlTag, <<>>, ret.nodes))
    /\ status' = "returned"
    /\ stack' = <<>>
    /\ op' = "none"
    /\ UNCHANGED <<mode, input, pos, ret, err>>

\* parse: return the only node, or wrap the nodes in an html element
parse_return ==
    /\ At("parse", "nodes")
    /\ result' = IF Len(ret.nodes) = 1
                 THEN Some(ret.nodes[1])
                 ELSE Some(element(HtmlTag, <<>>, ret.nodes))
    /\ status' = "returned"
    /\ stack' = <<>>
    /\ op' = "none"
    /\ UNCHANGED <<mode, input, pos, ret, err>>

\* parse_nodes_loop without the call of consume_whitespace
parse_nodes_loop_no_skip ==
    /\ At("parse_nodes", "loop")
    /\ Step(Goto([Top EXCEPT !.pc = "check", !.iter = pos]), pos, ret, "none")

\* parse_nodes: the head of the loop
parse_nodes_loop ==
    /\ At("parse_nodes", "loop")
    /\ Step(Call([Top EXCEPT !.pc = "check", !.iter = pos],
                 Frame("consume_whitespace", "call", "")),
            pos, ret, "none")

\* parse_nodes: break at end of input or at a closing tag, else parse a node
parse_nodes_check ==
    /\ At("parse_nodes", "check")
    /\ IF eof(input, pos)
       THEN Step(Pop, pos, RetNodes(Top.nodes), "eof")
       ELSE IF ~IsCharBoundary(input, pos)
            THEN Panic("char_boundary", pos, "starts_with")
            ELSE IF starts_with(input, pos, <<LT, SLASH>>)
                 THEN Step(Pop, pos, RetNodes(Top.nodes), "starts_with")
                 ELSE Step(Call([Top EXCEPT !.pc = "push"],
                                Frame("parse_node", "call", "")),
                           pos, ret, "starts_with")

\* parse_nodes: nodes.push(...)
parse_nodes_push ==
    /\ At("parse_nodes", "push")
    /\ Step(Goto([Top EXCEPT !.pc = "loop", !.nodes = Append(@, ret.nodes[1])]),
            pos, ret, "none")

\* parse_node with the two arms of the match exchanged
parse_node_arms_swapped ==
    /\ At("parse_node", "call")
    /\ IF CharPanic(input, pos) # ""
       THEN Panic(CharPanic(input, pos), pos, "next_char")
       ELSE IF next_char(input, pos) = LT
            THEN Step(Goto(Frame("parse_text", "call", "")), pos, ret, "next_char")
            ELSE Step(Goto(Frame("parse_element", "open", "")), pos, ret, "next_char")

\* parse_node: dispatch on the next character
parse_node ==
    /\ At("parse_node", "call")
    /\ IF CharPanic(input, pos) # ""
       THEN Panic(CharPanic(input, pos), pos, "next_char")
       ELSE IF next_char(input, pos) = LT
            THEN Step(Goto(Frame("parse_element", "open", "")), pos, ret, "next_char")
            ELSE Step(Goto(Frame("parse_text", "call", "")), pos, ret, "next_char")

\* parse_element: the `<` of the opening tag, then the tag name
parse_element_open ==
    /\ At("parse_element", "open")
    /\ Expect(LT, Call([Top EXCEPT !.pc = "tag"], Frame("parse_tag_name", "call", "")))

\* parse_element: keep the tag name, parse the attributes
parse_element_tag ==
    /\ At("parse_element", "tag")
    /\ Step(Call([Top EXCEPT !.pc = "attrs", !.str = ret.str],
                 Frame("parse_attributes", "loop", "")),
            pos, ret, "none")

\* parse_element: keep the attributes, the `>` of the opening tag, the contents
parse_element_attrs ==
    /\ At("parse_element", "attrs")
    /\ Expect(GT, Call([Top EXCEPT !.pc = "children", !.attrs = ret.attrs],
                       Frame("parse_nodes", "loop", "")))

\* parse_element: keep the children, the `<` of the closing tag
parse_element_children ==
    /\ At("parse_element", "children")
    /\ Expect(LT, Goto([Top EXCEPT !.pc = "slash", !.nodes = ret.nodes]))

\* parse_element: the `/` of the closing tag, then its name
parse_element_slash ==
    /\ At("parse_element", "slash")
    /\ Expect(SLASH, Call([Top EXCEPT !.pc = "close_name"],
                          Frame("parse_tag_name", "call", "")))

\* parse_element: assert!(self.parse_tag_name() == tag_name)
parse_element_close_name ==
    /\ At("parse_element", "close_name")
    /\ IF ret.str = Top.str
       THEN Step(Goto([Top EXCEPT !.pc = "close_gt"]), pos, ret, "none")
       ELSE Panic("tag_mismatch", pos, "none")

\* parse_element: the `>` of the closing tag, and the element is returned
parse_element_close_gt ==
    /\ At("parse_element", "close_gt")
    /\ IF CharPanic(input, pos) # ""
       THEN Panic(CharPanic(input, pos), pos, "consume_char")
       ELSE IF next_char(input, pos) # GT
            THEN Panic("assert_char", consume_char(input, pos), "consume_char")
            ELSE Step(Pop, consume_char(input, pos),
                      RetNode(element(Top.str, Top.attrs, Top.nodes)), "consume_char")

\* parse_text: consume up to the next `<`
parse_text_call ==
    /\ At("parse_text", "call")
    /\ Step(Call([Top EXCEPT !.pc = "ret"], Frame("consume_until", "loop", "not_lt")),
            pos, ret, "none")

\* parse_text: wrap the consumed string in a Text node
parse_text_return ==
    /\ At("parse_text", "ret")
    /\ Step(Pop, pos, RetNode(text(ret.str)), "none")

\* parse_tag_name: consume_until(ASCII letter or digit)
parse_tag_name ==
    /\ At("parse_tag_name", "call")
    /\ Step(Goto(Frame("consume_until", "loop", "tag_name")), pos, ret, "none")

\* parse_attributes: the head of the loop
parse_attributes_loop ==
    /\ At("parse_attributes", "loop")
    /\ Step(Call([Top EXCEPT !.pc = "check", !.iter = pos],
                 Frame("consume_whitespace", "call", "")),
            pos, ret, "none")

\* parse_attributes: break at `>`, else parse one attribute
parse_attributes_check ==
    /\ At("parse_attributes", "check")
    /\ IF CharPanic(input, pos) # ""
       THEN Panic(CharPanic(input, pos), pos, "next_char")
       ELSE IF next_char(input, pos) = GT
            THEN Step(Pop, pos, RetAttrs(Top.attrs), "next_char")
            ELSE Step(Call([Top EXCEPT !.pc = "insert"], Frame("parse_attr", "name", "")),
                      pos, ret, "next_char")

\* parse_attributes_insert without the insert
parse_attributes_insert_dropped ==
    /\ At("parse_attributes", "insert")
    /\ Step(Goto([Top EXCEPT !.pc = "loop"]), pos, ret, "none")

\* parse_attributes: attributes.insert(name, value)
parse_attributes_insert ==
    /\ At("parse_attributes", "insert")
    /\ Step(Goto([Top EXCEPT !.pc = "loop", !.attrs = insert(@, ret.str, ret.value)]),
            pos, ret, "none")

\* parse_attr: the name
parse_attr_name ==
    /\ At("parse_attr", "name")
    /\ Step(Call([Top EXCEPT !.pc = "eq"], Frame("parse_tag_name", "call", "")),
            pos, ret, "none")

\* parse_attr: keep the name, the `=`, then the value
parse_attr_eq ==
    /\ At("parse_attr", "eq")
    /\ Expect(EQS, Call([Top EXCEPT !.pc = "value", !.str = ret.str],
                        Frame("parse_attr_value", "open", "")))

\* parse_attr: return (name, value)
parse_attr_value_pair ==
    /\ At("parse_attr", "value")
    /\ Step(Pop, pos, RetPair(Top.str, ret.str), "none")

\* parse_attr_value: the opening quote, then everything up to the same quote
parse_attr_value_open ==
    /\ At("parse_attr_value", "open")
    /\ IF CharPanic(input, pos) # ""
       THEN Panic(CharPanic(input, pos), pos, "consume_char")
       ELSE IF next_char(input, pos) \notin {DQ, SQ}
            THEN Panic("assert_quote", consume_char(input, pos), "consume_char")
            ELSE Step(Call([Top EXCEPT !.pc = "close", !.arg = next_char(input, pos)],
                           Frame("consume_until", "loop",
                                 IF next_char(input, pos) = DQ THEN "not_dq" ELSE "not_sq")),
                      consume_char(input, pos), ret, "consume_char")

\* parse_attr_value: assert!(self.consume_char() == open_quote), return the value
parse_attr_value_close ==
    /\ At("parse_attr_value", "close")
    /\ IF CharPanic(input, pos) # ""
       THEN Panic(CharPanic(input, pos), pos, "consume_char")
       ELSE IF next_char(input, pos) # Top.arg
            THEN Panic("assert_char", consume_char(input, pos), "consume_char")
            ELSE Step(Pop, consume_char(input, pos), ret, "consume_char")

HtmlNext ==
    \/ parse_call
    \/ parse_return
    \/ parse_nodes_loop
    \/ parse_nodes_check
    \/ parse_nodes_push
    \/ parse_node
    \/ parse_element_open
    \/ parse_element_tag
    \/ parse_element_attrs
    \/ parse_element_children
    \/ parse_element_slash
    \/ parse_element_close_name
    \/ parse_element_close_gt
    \/ parse_text_call
    \/ parse_text_return
    \/ parse_tag_name
    \/ parse_attributes_loop
    \/ parse_attributes_check
    \/ parse_attributes_insert
    \/ parse_attr_name
    \/ parse_attr_eq
    \/ parse_attr_value_pair
    \/ parse_attr_value_open
    \/ parse_attr_value_close

----------------------------------------------------------------------------
(* The selector-list parser of css.rs.                                     *)

\* Selector::specificity: (ids, classes, tag names)
specificity(sel) == <<Len(sel.id), Len(sel.class), Len(sel.tag_name)>>

\* Ord for (usize, usize, usize): lexicographic
cmp(x, y) ==
    IF x[1] # y[1] THEN (IF x[1] < y[1] THEN "Less" ELSE "Greater")
    ELSE IF x[2] # y[2] THEN (IF x[2] < y[2] THEN "Less" ELSE "Greater")
    ELSE IF x[3] # y[3] THEN (IF x[3] < y[3] THEN "Less" ELSE "Greater")
    ELSE "Equal"

\* compare with its arguments in the usual order: an ascending sort
compare_ascending(a, b) == cmp(specificity(a), specificity(b))

\* the comparator of parse_selectors: |a, b| b.specificity().cmp(&a.specificity())
compare(a, b) == cmp(specificity(b), specificity(a))

RECURSIVE InsertSorted(_, _)
\* x goes before the first element it compares Less than: after its equals
InsertSorted(x, list) ==
    IF list = <<>> THEN <<x>>
    ELSE IF compare(x, Head(list)) = "Less" THEN <<x>> \o list
    ELSE <<Head(list)>> \o InsertSorted(x, Tail(list))

RECURSIVE sort_by(_)
\* slice::sort_by, a stable sort: the elements are inserted in input order
sort_by(list) ==
    IF list = <<>> THEN <<>>
    ELSE InsertSorted(list[Len(list)], sort_by(SubSeq(list, 1, Len(list) - 1)))

\* parse_selectors: parse one simple selector
parse_selectors_loop ==
    /\ At("parse_selectors", "loop")
    /\ Step(Call([Top EXCEPT !.pc = "push"], Frame("parse_simple_selector", "loop", "")),
            pos, ret, "none")

\* parse_selectors: selectors.push(...), then skip whitespace
parse_selectors_push ==
    /\ At("parse_selectors", "push")
    /\ Step(Call([Top EXCEPT !.pc = "match", !.sels = Append(@, ret.sels[1])],
                 Frame("consume_whitespace", "call", "")),
            pos, ret, "none")

\* parse_selectors: the selectors are sorted and returned (ret keeps the
\* list as it was collected)
ReturnSelectors(selectors) ==
    /\ result' = Some(sort_by(selectors))
    /\ ret' = RetSelectors(selectors)
    /\ status' = "returned"
    /\ stack' = <<>>
    /\ op' = "next_char"
    /\ UNCHANGED <<mode, input, pos, err>>

\* parse_selectors: `,` continues the list, `{` ends it, any other
\* character is fatal
parse_selectors_match ==
    /\ At("parse_selectors", "match")
    /\ IF CharPanic(input, pos) # ""
       THEN Panic(CharPanic(input, pos), pos, "next_char")
       ELSE IF next_char(input, pos) = ","
            THEN Step(Call([Top EXCEPT !.pc = "loop"],
                           Frame("consume_whitespace", "call", "")),
                      consume_char(input, pos), ret, "consume_char")
            ELSE IF next_char(input, pos) = "{"
                 THEN ReturnSelectors(Top.sels)
                 ELSE Panic("unexpected_char", pos, "next_char")

\* parse_simple_selector: one turn of the loop
parse_simple_selector_loop ==
    /\ At("parse_simple_selector", "loop")
    /\ IF eof(input, pos)
       THEN Step(Pop, pos, RetSelector(Top.sel), "eof")
       ELSE IF CharPanic(input, pos) # ""
            THEN Panic(CharPanic(input, pos), pos, "next_char")
            ELSE CASE next_char(input, pos) = "#" ->
                        Step(Call([Top EXCEPT !.pc = "id"], Frame("parse_identifier", "call", "")),
                             consume_char(input, pos), ret, "consume_char")
                   [] next_char(input, pos) = "." ->
                        Step(Call([Top EXCEPT !.pc = "class"], Frame("parse_identifier", "call", "")),
                             consume_char(input, pos), ret, "consume_char")
                   [] next_char(input, pos) = "*" ->
                        Step(stack, consume_char(input, pos), ret, "consume_char")
                   [] next_char(input, pos) \notin {"#", ".", "*"}
                      /\ valid_identifier_char(next_char(input, pos)) ->
                        Step(Call([Top EXCEPT !.pc = "tag"], Frame("parse_identifier", "call", "")),
                             pos, ret, "next_char")
                   [] OTHER -> Step(Pop, pos, RetSelector(Top.sel), "next_char")

\* parse_simple_selector: selector.id = Some(...)
parse_simple_selector_id ==
    /\ At("parse_simple_selector", "id")
    /\ Step(Goto([Top EXCEPT !.pc = "loop", !.sel.id = Some(ret.str)]), pos, ret, "none")

\* parse_simple_selector: selector.class.push(...)
parse_simple_selector_class ==
    /\ At("parse_simple_selector", "class")
    /\ Step(Goto([Top EXCEPT !.pc = "loop", !.sel.class = Append(@, ret.str)]), pos, ret, "none")

\* parse_simple_selector: selector.tag_name = Some(...)
parse_simple_selector_tag ==
    /\ At("parse_simple_selector", "tag")
    /\ Step(Goto([Top EXCEPT !.pc = "loop", !.sel.tag_name = Some(ret.str)]), pos, ret, "none")

\* parse_identifier (todo!() in css.rs): consume identifier characters
parse_identifier_call ==
    /\ At("parse_identifier", "call")
    /\ Step(Call([Top EXCEPT !.pc = "ret"], Frame("consume_until", "loop", "identifier")),
            pos, ret, "none")

\* parse_identifier (todo!() in css.rs): an empty name is rejected
parse_identifier_return ==
    /\ At("parse_identifier", "ret")
    /\ IF ret.str = <<>>
       THEN Panic("empty_identifier", pos, "none")
       ELSE Step(Pop, pos, ret, "none")

CssNext ==
    \/ parse_selectors_loop
    \/ parse_selectors_push
    \/ parse_selectors_match
    \/ parse_simple_selector_loop
    \/ parse_simple_selector_id
    \/ parse_simple_selector_class
    \/ parse_simple_selector_tag
    \/ parse_identifier_call
    \/ parse_identifier_return

----------------------------------------------------------------------------
(* The inputs the parsers are run on.                                      *)

\* every string over alphabet A of at most n characters
AllStrings(A, n) == UNION {[1..k -> A] : k \in 0..n}

RECURSIVE Concat(_)
\* the concatenation of a sequence of strings
Concat(ss) == IF ss = <<>> THEN <<>> ELSE Head(ss) \o Concat(Tail(ss))

HtmlAlphabet == {LT, GT, SLASH, "a", SP, EACUTE, IDSP}

TagNames == {<<"a">>, <<"b", "1">>}
\* opening and closing quote of the templated attribute value
QuotePairs == {<<DQ, <<DQ>>>>, <<SQ, <<SQ>>>>, <<DQ, <<>>>>, <<DQ, <<SQ>>>>}
ValueChars == {"a", GT, LT, EACUTE}
TextChars == {"a", SP, EACUTE}

\* <tag attr=QvQ>text</close>
Tagged(tag, attr, q, v, txt, close) ==
    <<LT>> \o tag \o <<SP>> \o attr \o <<EQS, q[1]>> \o v \o q[2] \o <<GT>>
    \o txt \o <<LT, SLASH>> \o close \o <<GT>>

\* attribute value and text run, at most MaxVal characters together
ValueAndText ==
    {vt \in AllStrings(ValueChars, MaxVal) \X AllStrings(TextChars, MaxVal) :
        Len(vt[1]) + Len(vt[2]) <= MaxVal}

TaggedInputs ==
    {Tagged(tag, <<"x">>, q, vt[1], vt[2], close) :
        tag \in TagNames, close \in TagNames, q \in QuotePairs,
        vt \in ValueAndText}

\* top-level fragments: elements, nested elements, mismatched closing tags,
\* a stray closing tag, an opening tag with an unterminated value, text
Fragments ==
    { <<LT, "a", GT, LT, SLASH, "a", GT>>,
      <<LT, "a", GT, LT, "b", GT, LT, SLASH, "b", GT, LT, SLASH, "a", GT>>,
      <<LT, "a", GT, "x", LT, SLASH, "a", GT>>,
      <<LT, "a", GT, LT, SLASH, "b", GT>>,
      <<LT, "a", GT, LT, "b", GT, LT, SLASH, "a", GT, LT, SLASH, "b", GT>>,
      <<LT, SLASH, "a", GT>>,
      <<LT, "a", SP, "x", EQS, DQ, "a", GT>>,
      <<"x", SP>>,
      <<EACUTE>> }

FragmentInputs == {Concat(fs) : fs \in AllStrings(Fragments, MaxTop)}

HtmlInputs == AllStrings(HtmlAlphabet, MaxLen) \cup TaggedInputs \cup FragmentInputs

CssAlphabet == {"#", ".", "*", ",", "{", "d", SP}

\* d.n  .n  #x  *  .m
SelectorTexts ==
    { <<"d", ".", "n">>, <<".", "n">>, <<"#", "x">>, <<"*">>, <<".", "m">> }

RECURSIVE Join(_)
\* the selectors separated by `, `
Join(ss) ==
    IF Len(ss) = 1 THEN Head(ss) ELSE Head(ss) \o <<",", SP>> \o Join(Tail(ss))

SelectorLists ==
    {Join(ss) \o <<SP, "{">> : ss \in AllStrings(SelectorTexts, MaxSel) \ {<<>>}}

CssInputs == AllStrings(CssAlphabet, MaxLen) \cup SelectorLists

----------------------------------------------------------------------------

Init ==
    /\ mode \in {"html", "css"}
    /\ input \in (IF mode = "html" THEN HtmlInputs ELSE CssInputs)
    /\ pos = 0
    /\ stack = IF mode = "html" THEN <<Frame("parse", "call", "")>>
               ELSE <<Frame("parse_selectors", "loop", "")>>
    /\ ret = NoRet
    /\ status = "running"
    /\ err = ""
    /\ result = None
    /\ op = "none"

Next ==
    \/ consume_until
    \/ consume_whitespace
    \/ HtmlNext
    \/ CssNext

Spec == Init /\ [][Next]_vars

\* html::parse alone
InitHtml == Init /\ mode = "html"

NextHtml ==
    \/ consume_until
    \/ consume_whitespace
    \/ HtmlNext

\* a parse is one synchronous call: a step that can be taken is taken
FairSpec == InitHtml /\ [][NextHtml]_vars /\ WF_vars(NextHtml)

----------------------------------------------------------------------------
(* Vocabulary of the properties.                                           *)

Returned(m) == mode = m /\ status = "returned"

RECURSIVE NodesOf(_)
\* every node of the tree rooted at n
NodesOf(n) == {n} \cup UNION {NodesOf(n.children[i]) : i \in DOMAIN n.children}

Range(f) == {f[x] : x \in DOMAIN f}

\* the value the entry point returned
Tree == result[1]
Sorted == result[1]
\* the selectors parse_selectors collected, before the sort
Collected == ret.sels

ElementA == <<LT, "a", GT, LT, SLASH, "a", GT>>
StrayClose == <<LT, SLASH, "a", GT>>

----------------------------------------------------------------------------
\* C1: when html::parse returns, it returns the only top-level node if
\* parse_nodes produced exactly one, and otherwise an Element named html with
\* no attributes whose children are the top-level nodes in source order
\* (ret.nodes holds the list parse_nodes returned to parse).
C1_RootOrHtmlWrapper ==
    Returned("html") =>
        /\ IF Len(ret.nodes) = 1
           THEN Tree = ret.nodes[1]
           ELSE /\ Tree.type = "Element"
                /\ Tree.tag_name = HtmlTag
                /\ DOMAIN Tree.attributes = {}
                /\ Tree.children = ret.nodes
        /\ input = ElementA \o ElementA =>
               Tree = element(HtmlTag, <<>>, <<element(<<"a">>, <<>>, <<>>),
                                                 element(<<"a">>, <<>>, <<>>)>>)
        /\ input = <<"x", SP>> \o ElementA =>
               Tree = element(HtmlTag, <<>>, <<text(<<"x", SP>>),
                                                 element(<<"a">>, <<>>, <<>>)>>)
        /\ input = ElementA => Tree = element(<<"a">>, <<>>, <<>>)
        /\ input = <<>> => Tree = element(HtmlTag, <<>>, <<>>)

\* two top-level nodes were wrapped
C1_Witness ==
    /\ Returned("html")
    /\ input = <<"x", SP>> \o ElementA
    /\ Len(Tree.children) = 2

----------------------------------------------------------------------------
\* the inputs <tag x="v">text</tag> of the model: v has no `"`, text no `<`
WellFormedTagged(tag, v, txt) == Tagged(tag, <<"x">>, <<DQ, <<DQ>>>>, v, txt, tag)

\* what the claim expects of such an input
ExpectedTree(tag, v, txt) ==
    element(tag, [n \in {<<"x">>} |-> v], <<text(txt)>>)

\* C2 as stated: every input <tag attr="v">text</tag> parses to the Element
\* tag with the one attribute attr -> v and the one Text child text.
C2_Original ==
    status # "running" /\ mode = "html" =>
        \A tag \in TagNames, vt \in ValueAndText :
            input = WellFormedTagged(tag, vt[1], vt[2]) =>
                /\ status = "returned"
                /\ Tree = ExpectedTree(tag, vt[1], vt[2])

\* C2 as amended: the same, for a text that is not empty and does not begin
\* with a whitespace character.
C2_TaggedTextElement ==
    status # "running" /\ mode = "html" =>
        \A tag \in TagNames, vt \in ValueAndText :
            /\ input = WellFormedTagged(tag, vt[1], vt[2])
            /\ vt[2] # <<>>
            /\ ~is_whitespace(vt[2][1])
            => /\ status = "returned"
               /\ Tree = ExpectedTree(tag, vt[1], vt[2])

\* a two-character tag name and a value with a multi-byte character
C2_Witness ==
    /\ Returned("html")
    /\ input = WellFormedTagged(<<"b", "1">>, <<EACUTE>>, <<"a">>)
    /\ Tree = ExpectedTree(<<"b", "1">>, <<EACUTE>>, <<"a">>)

----------------------------------------------------------------------------
MismatchFragments ==
    { <<LT, "a", GT, LT, SLASH, "b", GT>>,
      <<LT, "a", GT, LT, "b", GT, LT, SLASH, "a", GT, LT, SLASH, "b", GT>> }

\* inputs that contain an element closed under another name: a templated
\* element with two different names, or a list of fragments with a
\* mismatched one
MismatchInputs ==
    LET names == {n \in TagNames \X TagNames : n[1] # n[2]}
        templated == {Tagged(n[1], <<"x">>, q, vt[1], vt[2], n[2]) :
                         n \in names, q \in {<<DQ, <<DQ>>>>, <<SQ, <<SQ>>>>},
                         vt \in ValueAndText}
        lists == {gs \in AllStrings(Fragments, MaxTop) :
                     \E i \in DOMAIN gs : gs[i] \in MismatchFragments}
    IN  templated \cup {Concat(fs) : fs \in lists}

\* the part of C3 about parse_element: it gets past the closing name only
\* when that name equals the opening name, and fails with a tag mismatch
\* otherwise.
C3_CloseNameChecked ==
    mode = "html" =>
        /\ At("parse_element", "close_gt") => ret.str = Top.str
        /\ /\ status = "panicked"
           /\ Top.fn = "parse_element"
           /\ Top.pc = "close_name"
           => ret.str # Top.str /\ err = "tag_mismatch"

\* C3: for every input that contains an element whose closing tag name
\* differs from its opening tag name, at any depth, html::parse fails and
\* returns no tree; an Element is produced only when the two names are equal.
C3_TagMismatchFails ==
    /\ C3_CloseNameChecked
    /\ mode = "html" /\ input \in MismatchInputs => status # "returned"

----------------------------------------------------------------------------
\* C4 as stated: whenever html::parse returns a tree the cursor is at the end
\* of the input.
C4_ReturnsOnlyAtEof == Returned("html") => eof(input, pos)

----------------------------------------------------------------------------
\* C6 as stated: pos is always on a character boundary of the input, so that
\* eof() holds exactly when no character remains.
C6_PosOnCharBoundary == IsCharBoundary(input, pos)

----------------------------------------------------------------------------
\* the specificity of the claim: (1 if an id is present, the number of
\* classes, 1 if a tag name is present)
ClaimedSpecificity(sel) ==
    <<IF sel.id = None THEN 0 ELSE 1, Len(sel.class),
      IF sel.tag_name = None THEN 0 ELSE 1>>

\* x > y, lexicographically
LexGreater(x, y) ==
    \/ x[1] > y[1]
    \/ x[1] = y[1] /\ x[2] > y[2]
    \/ x[1] = y[1] /\ x[2] = y[2] /\ x[3] > y[3]

SimpleSelector(tag, id, class) == [tag_name |-> tag, id |-> id, class |-> class]

\* div.note, .note, #x, * {     (d for div, n for note)
ExampleList ==
    Join(<< <<"d", ".", "n">>, <<".", "n">>, <<"#", "x">>, <<"*">> >>) \o <<SP, "{">>

\* #x, div.note, .note, *
ExampleSorted ==
    << SimpleSelector(None, Some(<<"x">>), <<>>),
       SimpleSelector(Some(<<"d">>), None, << <<"n">> >>),
       SimpleSelector(None, None, << <<"n">> >>),
       SimpleSelector(None, None, <<>>) >>

\* C5: the list parse_selectors returns is a permutation of the selectors it
\* collected (ret), in descending order of specificity, selectors of equal
\* specificity keeping their input order; the example list comes out as
\* #x, div.note, .note, *.
C5_SelectorsSortedStable ==
    Returned("css") =>
        /\ Len(Sorted) = Len(Collected)
        /\ \E p \in Permutations(1..Len(Collected)) :
              /\ \A i \in 1..Len(Collected) : Sorted[i] = Collected[p[i]]
              /\ \A i, j \in 1..Len(Collected) :
                    i < j =>
                        LET x == ClaimedSpecificity(Sorted[i])
                            y == ClaimedSpecificity(Sorted[j])
                        IN  LexGreater(x, y) \/ (x = y /\ p[i] < p[j])
        /\ input = ExampleList => Sorted = ExampleSorted

\* two different selectors of equal specificity came out in input order
\* behind a selector that overtook them
C5_Witness ==
    /\ Returned("css")
    /\ Len(Collected) = 3
    /\ Collected[1] = SimpleSelector(None, None, << <<"m">> >>)
    /\ Collected[2] = SimpleSelector(None, None, << <<"n">> >>)
    /\ Sorted = <<Collected[3], Collected[1], Collected[2]>>

----------------------------------------------------------------------------
\* C7: no step moves pos backward or changes the input; a consume_char that
\* returns leaves pos strictly greater; next_char, starts_with and eof leave
\* pos unchanged.
C7_PosNeverDecreases ==
    [][ /\ input' = input
        /\ pos' >= pos
        /\ (op' = "consume_char" /\ err' \notin {"char_boundary", "unwrap_none"}
               => pos' > pos)
        /\ (op' \in {"next_char", "starts_with", "eof", "none"} => pos' = pos)
      ]_vars

\* consume_char has stepped over a multi-byte character in the middle of
\* the input
C7_Witness ==
    /\ status = "running"
    /\ op = "consume_char"
    /\ IsCharBoundary(input, pos)
    /\ CharIndexAt(input, pos) > 1
    /\ CharIndexAt(input, pos) <= Len(input)
    /\ input[CharIndexAt(input, pos) - 1] = EACUTE

----------------------------------------------------------------------------
UnterminatedFragment == <<LT, "a", SP, "x", EQS, DQ, "a", GT>>

\* inputs with an attribute value opened by a `"` that no other `"` follows:
\* templated ones, and lists of fragments with one unterminated opening tag
UnterminatedInputs ==
    LET templated == {Tagged(tag, <<"x">>, q, vt[1], vt[2], close) :
                         tag \in TagNames, close \in TagNames,
                         q \in {<<DQ, <<>>>>, <<DQ, <<SQ>>>>}, vt \in ValueAndText}
        lists == {gs \in AllStrings(Fragments, MaxTop) :
                     Cardinality({i \in DOMAIN gs : gs[i] = UnterminatedFragment}) = 1}
    IN  templated \cup {Concat(fs) : fs \in lists}

\* the part of C8 about parse_attr_value: the value it returns is the text
\* between the opening quote and the next occurrence of the same quote.
C8_ValueBetweenQuotes ==
    mode = "html" /\ At("parse_attr", "value") =>
        /\ IsCharBoundary(input, pos)
        /\ LET close == CharIndexAt(input, pos) - 1
               open == close - Len(ret.str) - 1
           IN  /\ open >= 1
               /\ input[close] \in {DQ, SQ}
               /\ input[open] = input[close]
               /\ SubSeq(input, open + 1, close - 1) = ret.str
               /\ input[close] \notin Range(ret.str)

\* C8: for every input in which the opening quote of an attribute value is
\* not followed by the same quote, html::parse fails and returns no tree,
\* and no value is returned that the end of the input terminated.
C8_UnterminatedValueFails ==
    /\ C8_ValueBetweenQuotes
    /\ mode = "html" /\ input \in UnterminatedInputs => status # "returned"

----------------------------------------------------------------------------
\* C9: html::parse terminates on every input, and every iteration of the
\* parse_nodes loop and of the parse_attributes loop that reaches its end
\* has advanced pos by at least one character.
C9_Terminates ==
    /\ [](/\ At("parse_nodes", "push") => pos > Top.iter
          /\ At("parse_attributes", "insert") => pos > Top.iter)
    /\ <>(status # "running")

\* both loops have completed an iteration and the parse has returned
C9_Witness ==
    /\ Returned("html")
    /\ Tree.type = "Element"
    /\ DOMAIN Tree.attributes # {}
    /\ Len(Tree.children) >= 1

----------------------------------------------------------------------------
\* C10: in every tree html::parse returns, a Text node has no children and
\* a content that is not empty, holds no `<` and does not begin with a
\* whitespace character.
C10_TextNodes ==
    Returned("html") =>
        \A n \in NodesOf(Tree) :
            n.type = "Text" =>
                /\ n.data # <<>>
                /\ LT \notin Range(n.data)
                /\ ~is_whitespace(n.data[1])
                /\ n.children = <<>>

\* whitespace before a text run was skipped, and whitespace-only content
\* gave no node
C10_Witness ==
    /\ Returned("html")
    /\ \/ /\ input = WellFormedTagged(<<"a">>, <<>>, <<SP, "a">>)
          /\ Tree.children = <<text(<<"a">>)>>
       \/ /\ input = WellFormedTagged(<<"a">>, <<>>, <<SP, SP>>)
          /\ Tree.children = <<>>

====
